---- MODULE Spec2Model ----
(***************************************************************************)
(* A model of two parts of the symbol-sdk:                                 *)
(*   - MetadataTransactionService (src/src/service/                        *)
(*     MetadataTransactionService.ts): the fetch-then-diff protocol that   *)
(*     builds account / mosaic / namespace metadata transactions;          *)
(*   - SecretProofTransaction (src/unnamed/part_000): construction,        *)
(*     binary codec and alias resolution.                                  *)
(* Spec        is the behaviour of one MetadataTransactionService call.    *)
(* SpecProof   is one SecretProofTransaction object: its construction, its *)
(*             byte accessors and its encoding and decoding.               *)
(* SpecResolve is one SecretProofTransaction object: its construction and  *)
(*             the resolution of its aliases against a statement.          *)
(* SpecNotify  is one SecretProofTransaction object: its construction and  *)
(*             the question whether an account is to be notified of it.    *)
(***************************************************************************)
EXTENDS Integers, Sequences, FiniteSets, TLC

VARIABLES
    pc,         \* position of the createMetadataTransaction call
    call,       \* the arguments of the call
    requests,   \* read requests issued to the MetadataRepository, in order
    emitted,    \* transactions delivered on the observable's next channel
    failure,    \* the error delivered on the error channel / thrown
    response,   \* what the repository answered (kept for the record)
    phase,      \* what was last done with the SecretProofTransaction object
    args,       \* the arguments the object was constructed from
    tx,         \* the SecretProofTransaction object, once constructed
    result      \* what the last operation on the object returned or threw

metaVars == <<pc, call, requests, emitted, failure, response>>

proofVars == <<phase, args, tx, result>>

vars == <<metaVars, proofVars>>

(***************************************************************************)
(* Bounds and input alphabets.                                             *)
(***************************************************************************)
\* longest caller-supplied / stored string that is enumerated
MaxLen == 2

\* code points of the strings: 'a', 'b' and U+00E9 (two UTF-8 bytes)
Chars == {97, 98, 233}

None == [kind |-> "undefined"]

RECURSIVE StrsOfLen(_)
StrsOfLen(n) ==
    IF n = 0 THEN {<<>>}
    ELSE {Append(s, c) : s \in StrsOfLen(n - 1), c \in Chars}

\* the strings of the example of the specification: "abc" and "abcd"
ExampleStrs == {<<97, 98, 99>>, <<97, 98, 99, 100>>}

Strs == UNION {StrsOfLen(n) : n \in 0..MaxLen} \cup ExampleStrs

(***************************************************************************)
(* Convert: the byte / hex / utf8 helpers the service calls.               *)
(***************************************************************************)
\* Convert.utf8ToUint8: the UTF-8 bytes of a string of code points < 0x800
RECURSIVE utf8ToUint8(_)
utf8ToUint8(s) ==
    IF s = <<>> THEN <<>>
    ELSE LET c == Head(s)
             b == IF c < 128 THEN <<c>>
                  ELSE <<192 + (c \div 64), 128 + (c % 64)>>
         IN  b \o utf8ToUint8(Tail(s))

\* the bitwise exclusive or of two naturals (JavaScript's ^ on bytes)
RECURSIVE BitXor(_, _)
BitXor(a, b) ==
    IF a = 0 THEN b
    ELSE IF b = 0 THEN a
    ELSE ((a + b) % 2) + 2 * BitXor(a \div 2, b \div 2)

\* Convert.uint8ToHex: two hex digits (as values 0..15) per byte
uint8ToHex(bytes) ==
    [i \in 1..(2 * Len(bytes)) |->
        IF i % 2 = 1 THEN bytes[(i + 1) \div 2] \div 16 ELSE bytes[i \div 2] % 16]

Max(a, b) == IF a >= b THEN a ELSE b

\* buffer[i] of JavaScript: undefined past the end, and undefined ^ x = x
ByteAt(buf, i) == IF i <= Len(buf) THEN buf[i] ELSE 0

\* Convert.xor: byte-wise xor up to the longer length, as a hex string
xor(value1, value2) ==
    uint8ToHex([i \in 1..Max(Len(value1), Len(value2)) |->
                    BitXor(ByteAt(value1, i), ByteAt(value2, i))])

\* Convert.decodeHex: one character per pair of hex digits
decodeHex(hex) ==
    [i \in 1..(Len(hex) \div 2) |-> 16 * hex[2 * i - 1] + hex[2 * i]]

(***************************************************************************)
(* The arguments of createMetadataTransaction.                             *)
(***************************************************************************)
\* MetadataType: Account, Mosaic, Namespace, and a value outside the enum
MetadataTypes == {"Account", "Mosaic", "Namespace", "Invalid"}

\* targetId?: absent, a MosaicId or a NamespaceId
TargetIds == {None, [kind |-> "MosaicId"], [kind |-> "NamespaceId"]}

TargetAddresses == {"TARGET"}
SourceAddresses == {"SOURCE"}
Keys == {"KEY"}
Deadlines == {1}
NetworkTypes == {152}
MaxFees == {0}

Calls ==
    [metadataType : MetadataTypes, targetId : TargetIds, value : Strs,
     targetAddress : TargetAddresses, sourceAddress : SourceAddresses,
     key : Keys, deadline : Deadlines, networkType : NetworkTypes,
     maxFee : MaxFees]

NoCall == [metadataType |-> "none"]

(***************************************************************************)
(* What the MetadataRepository can answer.                                 *)
(***************************************************************************)
\* a Metadata whose metadataEntry.value is a stored string
Metadatas == [value : Strs]

Undefined == [type |-> "undefined", val |-> 0]
Number(n) == [type |-> "number", val |-> n]
String(n) == [type |-> "string", val |-> n]

\* err.message: text that is JSON (null, or an object with or without a
\* statusCode) or text that is not JSON at all
Messages ==
    {[text |-> "{statusCode:404}", json |-> TRUE, isNull |-> FALSE, statusCode |-> Number(404)],
     [text |-> "{statusCode:500}", json |-> TRUE, isNull |-> FALSE, statusCode |-> Number(500)],
     [text |-> "{statusCode:0}", json |-> TRUE, isNull |-> FALSE, statusCode |-> Number(0)],
     [text |-> "{statusCode:'404'}", json |-> TRUE, isNull |-> FALSE, statusCode |-> String(404)],
     [text |-> "{}", json |-> TRUE, isNull |-> FALSE, statusCode |-> Undefined],
     [text |-> "null", json |-> TRUE, isNull |-> TRUE, statusCode |-> Undefined],
     [text |-> "connect ECONNREFUSED", json |-> FALSE, isNull |-> FALSE, statusCode |-> Undefined]}

\* the message of the SyntaxError JSON.parse throws on such a text
SyntaxErrorMessage(m) ==
    [text |-> "Unexpected token", json |-> FALSE, isNull |-> FALSE, statusCode |-> Undefined]

RepositoryErrors == [name : {"Error"}, message : Messages]

\* JavaScript truthiness of a parsed statusCode
Truthy(v) == \/ v.type = "number" /\ v.val # 0
             \/ v.type = "string"

\* error.statusCode === 404
StrictEquals404(v) == v.type = "number" /\ v.val = 404

\* error && error.statusCode && error.statusCode === 404
IsNotFound(m) == ~m.isNull /\ Truthy(m.statusCode) /\ StrictEquals404(m.statusCode)

Next_(t) == [channel |-> "next", tx |-> t, error |-> None]
Error_(e) == [channel |-> "error", tx |-> None, error |-> e]

(***************************************************************************)
(* createAccountMetadataTransaction: the two continuations of the fetch.   *)
(***************************************************************************)
AccountMetadataTransaction_create(deadline, targetAddress, key, valueSizeDelta, value, networkType, maxFee) ==
    [type |-> "AccountMetadataTransaction", deadline |-> deadline,
     targetAddress |-> targetAddress, scopedMetadataKey |-> key,
     targetId |-> None, valueSizeDelta |-> valueSizeDelta, value |-> value,
     networkType |-> networkType, maxFee |-> maxFee]

AccountMap_Raw(c, metadata) ==
    LET newValueBytes == utf8ToUint8(c.value)
    IN  AccountMetadataTransaction_create(c.deadline, c.targetAddress, c.key,
            Len(newValueBytes), c.value, c.networkType, c.maxFee)

AccountMap_SwapDelta(c, metadata) ==
    LET currentValueByte == utf8ToUint8(metadata.value)
        newValueBytes == utf8ToUint8(c.value)
    IN  AccountMetadataTransaction_create(c.deadline, c.targetAddress, c.key,
            Len(currentValueByte) - Len(newValueBytes),
            decodeHex(xor(currentValueByte, newValueBytes)),
            c.networkType, c.maxFee)

\* map((metadata) => ...)
AccountMap(c, metadata) ==
    LET currentValueByte == utf8ToUint8(metadata.value)
        newValueBytes == utf8ToUint8(c.value)
    IN  AccountMetadataTransaction_create(c.deadline, c.targetAddress, c.key,
            Len(newValueBytes) - Len(currentValueByte),
            decodeHex(xor(currentValueByte, newValueBytes)),
            c.networkType, c.maxFee)

AccountCatch_StrLen(c, err) ==
    IF ~err.message.json
    THEN Error_([name |-> "SyntaxError", message |-> SyntaxErrorMessage(err.message)])
    ELSE IF IsNotFound(err.message)
    THEN Next_(AccountMetadataTransaction_create(c.deadline, c.targetAddress, c.key,
                 Len(c.value), c.value, c.networkType, c.maxFee))
    ELSE Error_([name |-> "Error", message |-> err.message])

\* catchError((err) => ...)
AccountCatch(c, err) ==
    IF ~err.message.json
    THEN \* JSON.parse(err.message) throws
         Error_([name |-> "SyntaxError", message |-> SyntaxErrorMessage(err.message)])
    ELSE IF IsNotFound(err.message)
    THEN LET newValueBytes == utf8ToUint8(c.value)
         IN  Next_(AccountMetadataTransaction_create(c.deadline, c.targetAddress, c.key,
                     Len(newValueBytes), c.value, c.networkType, c.maxFee))
    ELSE \* throw Error(err.message)
         Error_([name |-> "Error", message |-> err.message])

(***************************************************************************)
(* createMosaicMetadataTransaction: the two continuations of the fetch.    *)
(***************************************************************************)
MosaicMetadataTransaction_create(deadline, targetAddress, key, mosaicId, valueSizeDelta, value, networkType, maxFee) ==
    [type |-> "MosaicMetadataTransaction", deadline |-> deadline,
     targetAddress |-> targetAddress, scopedMetadataKey |-> key,
     targetId |-> mosaicId, valueSizeDelta |-> valueSizeDelta, value |-> value,
     networkType |-> networkType, maxFee |-> maxFee]

\* map((metadata) => ...)
MosaicMap(c, metadata) ==
    LET currentValueByte == utf8ToUint8(metadata.value)
        newValueBytes == utf8ToUint8(c.value)
    IN  MosaicMetadataTransaction_create(c.deadline, c.targetAddress, c.key, c.targetId,
            Len(newValueBytes) - Len(currentValueByte),
            decodeHex(xor(currentValueByte, newValueBytes)),
            c.networkType, c.maxFee)

\* catchError((err) => ...)
MosaicCatch(c, err) ==
    IF ~err.message.json
    THEN \* JSON.parse(err.message) throws
         Error_([name |-> "SyntaxError", message |-> SyntaxErrorMessage(err.message)])
    ELSE IF IsNotFound(err.message)
    THEN LET newValueBytes == utf8ToUint8(c.value)
         IN  Next_(MosaicMetadataTransaction_create(c.deadline, c.targetAddress, c.key,
                     c.targetId, Len(newValueBytes), c.value, c.networkType, c.maxFee))
    ELSE \* throw Error(err.message)
         Error_([name |-> "Error", message |-> err.message])

(***************************************************************************)
(* createNamespaceMetadataTransaction: the two continuations of the fetch. *)
(***************************************************************************)
NamespaceMetadataTransaction_create(deadline, targetAddress, key, namespaceId, valueSizeDelta, value, networkType, maxFee) ==
    [type |-> "NamespaceMetadataTransaction", deadline |-> deadline,
     targetAddress |-> targetAddress, scopedMetadataKey |-> key,
     targetId |-> namespaceId, valueSizeDelta |-> valueSizeDelta, value |-> value,
     networkType |-> networkType, maxFee |-> maxFee]

\* map((metadata) => ...)
NamespaceMap(c, metadata) ==
    LET currentValueByte == utf8ToUint8(metadata.value)
        newValueBytes == utf8ToUint8(c.value)
    IN  NamespaceMetadataTransaction_create(c.deadline, c.targetAddress, c.key, c.targetId,
            Len(newValueBytes) - Len(currentValueByte),
            decodeHex(xor(currentValueByte, newValueBytes)),
            c.networkType, c.maxFee)

\* catchError((err) => ...)
NamespaceCatch(c, err) ==
    IF ~err.message.json
    THEN \* JSON.parse(err.message) throws
         Error_([name |-> "SyntaxError", message |-> SyntaxErrorMessage(err.message)])
    ELSE IF IsNotFound(err.message)
    THEN LET newValueBytes == utf8ToUint8(c.value)
         IN  Next_(NamespaceMetadataTransaction_create(c.deadline, c.targetAddress, c.key,
                     c.targetId, Len(newValueBytes), c.value, c.networkType, c.maxFee))
    ELSE \* throw Error(err.message)
         Error_([name |-> "Error", message |-> err.message])

(***************************************************************************)
(* createMetadataTransaction: the synchronous dispatch.                    *)
(***************************************************************************)
Request(method, c) ==
    [method |-> method,
     target |-> IF method = "getAccountMetadataByKeyAndSender"
                THEN [kind |-> "Address"] ELSE c.targetId,
     key |-> c.key, sourceAddress |-> c.sourceAddress]

Thrown(text) == [name |-> "Error",
                 message |-> [text |-> text, json |-> FALSE, isNull |-> FALSE,
                              statusCode |-> Undefined]]

\* what the switch does: the repository method it requests, or the Error
\* it throws
Dispatch_Loose(c) ==
    CASE c.metadataType = "Account" ->
            [throws |-> FALSE, method |-> "getAccountMetadataByKeyAndSender"]
      [] c.metadataType = "Mosaic" ->
            IF c.targetId = None
            THEN [throws |-> TRUE, method |-> "TargetId for MosaicMetadataTransaction is invalid"]
            ELSE [throws |-> FALSE, method |-> "getMosaicMetadataByKeyAndSender"]
      [] c.metadataType = "Namespace" ->
            IF c.targetId = None
            THEN [throws |-> TRUE, method |-> "TargetId for NamespaceMetadataTransaction is invalid"]
            ELSE [throws |-> FALSE, method |-> "getNamespaceMetadataByKeyAndSender"]
      [] OTHER -> [throws |-> TRUE, method |-> "Metadata type invalid"]

Dispatch_WrongMethod(c) ==
    CASE c.metadataType = "Account" ->
            [throws |-> FALSE, method |-> "getAccountMetadataByKeyAndSender"]
      [] c.metadataType = "Mosaic" ->
            IF c.targetId = None \/ c.targetId.kind # "MosaicId"
            THEN [throws |-> TRUE, method |-> "TargetId for MosaicMetadataTransaction is invalid"]
            ELSE [throws |-> FALSE, method |-> "getNamespaceMetadataByKeyAndSender"]
      [] c.metadataType = "Namespace" ->
            IF c.targetId = None \/ c.targetId.kind # "NamespaceId"
            THEN [throws |-> TRUE, method |-> "TargetId for NamespaceMetadataTransaction is invalid"]
            ELSE [throws |-> FALSE, method |-> "getNamespaceMetadataByKeyAndSender"]
      [] OTHER -> [throws |-> TRUE, method |-> "Metadata type invalid"]

Dispatch(c) ==
    CASE c.metadataType = "Account" ->
            [throws |-> FALSE, method |-> "getAccountMetadataByKeyAndSender"]
      [] c.metadataType = "Mosaic" ->
            IF c.targetId = None \/ c.targetId.kind # "MosaicId"
            THEN [throws |-> TRUE, method |-> "TargetId for MosaicMetadataTransaction is invalid"]
            ELSE [throws |-> FALSE, method |-> "getMosaicMetadataByKeyAndSender"]
      [] c.metadataType = "Namespace" ->
            IF c.targetId = None \/ c.targetId.kind # "NamespaceId"
            THEN [throws |-> TRUE, method |-> "TargetId for NamespaceMetadataTransaction is invalid"]
            ELSE [throws |-> FALSE, method |-> "getNamespaceMetadataByKeyAndSender"]
      [] OTHER -> [throws |-> TRUE, method |-> "Metadata type invalid"]

\* createMetadataTransaction(deadline, networkType, metadataType, ...)
createMetadataTransaction(c) ==
    /\ pc = "idle"
    /\ call' = c
    /\ LET d == Dispatch(c)
       IN  IF d.throws
           THEN /\ pc' = "thrown"
                /\ failure' = Thrown(d.method)
                /\ requests' = requests
           ELSE /\ pc' = "pending"
                /\ failure' = None
                /\ requests' = Append(requests, Request(d.method, c))
    /\ UNCHANGED <<emitted, response>>
    /\ UNCHANGED proofVars

\* the continuation the pending request resumes: the map of the pipe of
\* the method that was requested
OnNext(method, c, metadata) ==
    CASE method = "getAccountMetadataByKeyAndSender" -> Next_(AccountMap(c, metadata))
      [] method = "getMosaicMetadataByKeyAndSender" -> Next_(MosaicMap(c, metadata))
      [] method = "getNamespaceMetadataByKeyAndSender" -> Next_(NamespaceMap(c, metadata))

\* the catchError of the pipe of the method that was requested
OnError(method, c, err) ==
    CASE method = "getAccountMetadataByKeyAndSender" -> AccountCatch(c, err)
      [] method = "getMosaicMetadataByKeyAndSender" -> MosaicCatch(c, err)
      [] method = "getNamespaceMetadataByKeyAndSender" -> NamespaceCatch(c, err)

Deliver(r) ==
    IF r.channel = "next"
    THEN /\ emitted' = Append(emitted, r.tx)
         /\ failure' = failure
         /\ pc' = "completed"
    ELSE /\ emitted' = emitted
         /\ failure' = r.error
         /\ pc' = "errored"

\* the repository answers the pending request with a Metadata
RepositoryNext(metadata) ==
    /\ pc = "pending"
    /\ response' = [channel |-> "next", metadata |-> metadata, error |-> None]
    /\ Deliver(OnNext(requests[Len(requests)].method, call, metadata))
    /\ UNCHANGED <<call, requests>>
    /\ UNCHANGED proofVars

\* the repository fails the pending request with an Error
RepositoryError(err) ==
    /\ pc = "pending"
    /\ response' = [channel |-> "error", metadata |-> None, error |-> err]
    /\ Deliver(OnError(requests[Len(requests)].method, call, err))
    /\ UNCHANGED <<call, requests>>
    /\ UNCHANGED proofVars

(***************************************************************************)
(* SecretProofTransaction: values.  A hex string is a sequence of hex      *)
(* digits, each a value 0..15; a value above 15 stands for a character     *)
(* that is no hex digit.  An optional value is a record whose kind is      *)
(* "undefined" when it is absent.                                          *)
(***************************************************************************)
\* longest proof that is enumerated, in bytes
MaxProofBytes == 2

\* highest transaction index and aggregate transaction index
MaxIndex == 1

\* most resolution entries of a statement
MaxEntries == 1

\* the hex width getSecretByte pads to
SecretHexWidth == 64

\* new Uint8Array(32) / new Uint8Array(64)
KeyBytes == 32
SignatureBytes == 64

\* payload.substring(16, 144)
SignatureStart == 16
SignatureEnd == 144

\* TransactionVersion.SECRET_PROOF and TransactionType.SECRET_PROOF
SECRET_PROOF_VERSION == 1
SECRET_PROOF_TYPE == 16978

Defined(x) == x.kind # "undefined"

Zeros(n) == [i \in 1..n |-> 0]
Fill(n, d) == [i \in 1..n |-> d]

Hex(h) == [kind |-> "string", hex |-> h]
PublicAccount_createFromPublicKey(publicKey, networkType) ==
    [kind |-> "PublicAccount", publicKey |-> publicKey]
Address(id) == [kind |-> "Address", id |-> id]
NamespaceId(id) == [kind |-> "NamespaceId", id |-> id]
TransactionInfo(height, index) ==
    [kind |-> "TransactionInfo", height |-> height, index |-> index]

\* LockHashAlgorithm: Op_Sha3_256 = 0, Op_Hash_160 = 1, Op_Hash_256 = 2
HashAlgorithms == {0, 1, 2}

\* secrets of 64, 40 and 32 hex digits, a secret of 64 digits that ends in
\* zeros, and a string of 64 characters that are no hex digits
SecretInputs ==
    {Fill(64, 10), Fill(40, 10), Fill(32, 10), Fill(40, 10) \o Zeros(24), Fill(64, 16)}

ProofInputs == {Fill(2 * n, 11) : n \in 1..MaxProofBytes}

RecipientInputs == {Address(1), Address(2), NamespaceId(7)}

SignatureInputs == {None, Hex(Zeros(128)), Hex(Fill(128, 12))}

SignerInputs == {None, PublicAccount_createFromPublicKey(Fill(64, 13), 152)}

\* a public account whose key is all zeros
ZeroKeySigner == PublicAccount_createFromPublicKey(Zeros(64), 152)

ProofNetworkTypes == {152, 104}
ProofDeadlines == {1, 2}
ProofMaxFees == {0, 5}

TransactionInfoInputs ==
    {None} \cup {TransactionInfo(1, i) : i \in 0..MaxIndex}

\* the constructor arguments of the objects that are encoded and decoded
CodecArgs ==
    [networkType : ProofNetworkTypes, version : {SECRET_PROOF_VERSION},
     deadline : ProofDeadlines, maxFee : ProofMaxFees,
     hashAlgorithm : HashAlgorithms, secret : SecretInputs,
     recipientAddress : RecipientInputs, proof : ProofInputs,
     signature : SignatureInputs, signer : SignerInputs \cup {ZeroKeySigner},
     transactionInfo : {None}]

\* the constructor arguments of the objects whose aliases are resolved
ResolveArgs ==
    [networkType : {152}, version : {SECRET_PROOF_VERSION},
     deadline : {1}, maxFee : {0},
     hashAlgorithm : {0, 1}, secret : {Fill(64, 10), Fill(40, 10)},
     recipientAddress : RecipientInputs, proof : {Fill(2, 11)},
     signature : {Hex(Fill(128, 12))}, signer : SignerInputs,
     transactionInfo : TransactionInfoInputs]

(***************************************************************************)
(* Convert and the validators the constructor relies on.                   *)
(***************************************************************************)
\* Convert.isHexString
isHexString(input) ==
    /\ Len(input) % 2 = 0
    /\ \A i \in 1..Len(input) : input[i] \in 0..15

\* Convert.hexToUint8: one byte per pair of hex digits
hexToUint8(hex) ==
    [i \in 1..(Len(hex) \div 2) |-> 16 * hex[2 * i - 1] + hex[2 * i]]

\* the hex length each hash algorithm requires of a secret
RequiredLength(hashAlgorithm) ==
    CASE hashAlgorithm = 0 -> 64
      [] hashAlgorithm = 1 -> 40
      [] hashAlgorithm = 2 -> 64
      [] OTHER -> -1

LockHashAlgorithmLengthValidator(hashAlgorithm, input) ==
    /\ isHexString(input)
    /\ Len(input) = RequiredLength(hashAlgorithm)

Ok(t) == [ok |-> TRUE, error |-> "", tx |-> t]
Throw(e) == [ok |-> FALSE, error |-> e, tx |-> None]

(***************************************************************************)
(* The constructor and the create factory.                                 *)
(***************************************************************************)
constructor_NoCheck(networkType, version, deadline, maxFee, hashAlgorithm, secret, recipientAddress, proof, signature, signer, transactionInfo) ==
    Ok([type |-> SECRET_PROOF_TYPE, networkType |-> networkType,
        version |-> version, deadline |-> deadline, maxFee |-> maxFee,
        hashAlgorithm |-> hashAlgorithm, secret |-> secret,
        recipientAddress |-> recipientAddress, proof |-> proof,
        signature |-> signature, signer |-> signer,
        transactionInfo |-> transactionInfo])

constructor(networkType, version, deadline, maxFee, hashAlgorithm, secret, recipientAddress, proof, signature, signer, transactionInfo) ==
    IF ~LockHashAlgorithmLengthValidator(hashAlgorithm, secret)
    THEN Throw("HashType and Secret have incompatible length or not hexadecimal string")
    ELSE Ok([type |-> SECRET_PROOF_TYPE, networkType |-> networkType,
             version |-> version, deadline |-> deadline, maxFee |-> maxFee,
             hashAlgorithm |-> hashAlgorithm, secret |-> secret,
             recipientAddress |-> recipientAddress, proof |-> proof,
             signature |-> signature, signer |-> signer,
             transactionInfo |-> transactionInfo])

create(deadline, hashAlgorithm, secret, recipientAddress, proof, networkType, maxFee, signature, signer) ==
    constructor(networkType, SECRET_PROOF_VERSION, deadline, maxFee,
                hashAlgorithm, secret, recipientAddress, proof, signature,
                signer, None)

(***************************************************************************)
(* Byte accessors.                                                         *)
(***************************************************************************)
getSecretByte_NoPad(t) == hexToUint8(t.secret)

getSecretByte(t) ==
    hexToUint8(IF SecretHexWidth > Len(t.secret)
               THEN t.secret \o Zeros(SecretHexWidth - Len(t.secret))
               ELSE t.secret)

getProofByte(t) == hexToUint8(t.proof)

(***************************************************************************)
(* Encoding: createBuilder, toEmbeddedTransaction and the serialisation of *)
(* the two builders.                                                       *)
(***************************************************************************)
\* n as w little-endian bytes
RECURSIVE ToLE(_, _)
ToLE(n, w) == IF w = 0 THEN <<>> ELSE <<n % 256>> \o ToLE(n \div 256, w - 1)

RECURSIVE FromLE(_)
FromLE(bytes) ==
    IF bytes = <<>> THEN 0 ELSE Head(bytes) + 256 * FromLE(Tail(bytes))

\* encodeUnresolvedAddress: 24 bytes; an alias sets the low bit of byte 0
encodeUnresolvedAddress(recipient, networkType) ==
    IF recipient.kind = "NamespaceId"
    THEN <<networkType + 1, recipient.id>> \o Zeros(22)
    ELSE <<152, recipient.id>> \o Zeros(22)

\* UnresolvedMapping.toUnresolvedAddress
toUnresolvedAddress(hex) ==
    LET bytes == hexToUint8(hex)
    IN  IF bytes[1] % 2 = 1 THEN NamespaceId(bytes[2]) ELSE Address(bytes[2])

versionToDTO(t) == t.version

createBuilder(t) ==
    LET signerBuffer == IF Defined(t.signer)
                        THEN hexToUint8(t.signer.publicKey) ELSE Zeros(KeyBytes)
        signatureBuffer == IF Defined(t.signature)
                           THEN hexToUint8(t.signature.hex) ELSE Zeros(SignatureBytes)
    IN  [builder |-> "SecretProofTransactionBuilder",
         signature |-> signatureBuffer,
         signerPublicKey |-> signerBuffer,
         version |-> versionToDTO(t),
         network |-> t.networkType,
         type |-> SECRET_PROOF_TYPE,
         fee |-> t.maxFee,
         deadline |-> t.deadline,
         recipientAddress |-> encodeUnresolvedAddress(t.recipientAddress, t.networkType),
         secret |-> getSecretByte(t),
         hashAlgorithm |-> t.hashAlgorithm,
         proof |-> getProofByte(t)]

\* this.signer!.publicKey of an object that has a signer
toEmbeddedTransaction(t) ==
    [builder |-> "EmbeddedSecretProofTransactionBuilder",
     signerPublicKey |-> hexToUint8(t.signer.publicKey),
     version |-> versionToDTO(t),
     network |-> t.networkType,
     type |-> SECRET_PROOF_TYPE,
     recipientAddress |-> encodeUnresolvedAddress(t.recipientAddress, t.networkType),
     secret |-> getSecretByte(t),
     hashAlgorithm |-> t.hashAlgorithm,
     proof |-> getProofByte(t)]

\* the body both builders share
SerializeBody(b) ==
    b.recipientAddress \o b.secret \o ToLE(Len(b.proof), 2)
        \o <<b.hashAlgorithm>> \o b.proof

WithSize(rest) == ToLE(4 + Len(rest), 4) \o rest

\* SecretProofTransactionBuilder.serialize
serialize(b) ==
    WithSize(Zeros(4) \o b.signature \o b.signerPublicKey \o Zeros(4)
             \o <<b.version, b.network>> \o ToLE(b.type, 2)
             \o ToLE(b.fee, 8) \o ToLE(b.deadline, 8) \o SerializeBody(b))

\* EmbeddedSecretProofTransactionBuilder.serialize
serializeEmbedded(b) ==
    WithSize(Zeros(4) \o b.signerPublicKey \o Zeros(4)
             \o <<b.version, b.network>> \o ToLE(b.type, 2) \o SerializeBody(b))

Slice(bytes, from, n) == SubSeq(bytes, from + 1, from + n)

\* the body fields, read from offset o
LoadBody(bytes, o) ==
    [recipientAddress |-> Slice(bytes, o, 24),
     secret |-> Slice(bytes, o + 24, 32),
     hashAlgorithm |-> bytes[o + 59],
     proof |-> Slice(bytes, o + 59, FromLE(Slice(bytes, o + 56, 2)))]

\* SecretProofTransactionBuilder.loadFromBinary
loadFromBinary(bytes) ==
    LET body == LoadBody(bytes, 128)
    IN  [builder |-> "SecretProofTransactionBuilder",
         signature |-> Slice(bytes, 8, 64),
         signerPublicKey |-> Slice(bytes, 72, 32),
         version |-> bytes[109],
         network |-> bytes[110],
         type |-> FromLE(Slice(bytes, 110, 2)),
         fee |-> FromLE(Slice(bytes, 112, 8)),
         deadline |-> FromLE(Slice(bytes, 120, 8)),
         recipientAddress |-> body.recipientAddress,
         secret |-> body.secret,
         hashAlgorithm |-> body.hashAlgorithm,
         proof |-> body.proof]

\* EmbeddedSecretProofTransactionBuilder.loadFromBinary
loadFromBinaryEmbedded(bytes) ==
    LET body == LoadBody(bytes, 48)
    IN  [builder |-> "EmbeddedSecretProofTransactionBuilder",
         signerPublicKey |-> Slice(bytes, 8, 32),
         version |-> bytes[45],
         network |-> bytes[46],
         type |-> FromLE(Slice(bytes, 46, 2)),
         recipientAddress |-> body.recipientAddress,
         secret |-> body.secret,
         hashAlgorithm |-> body.hashAlgorithm,
         proof |-> body.proof]

(***************************************************************************)
(* Decoding: createFromPayload.                                            *)
(***************************************************************************)
\* s.match(`^[0]+$`)
MatchesZeros(s) == Len(s) >= 1 /\ \A i \in 1..Len(s) : s[i] = 0

\* payload.substring(from, to)
substring(s, from, to) ==
    SubSeq(s, from + 1, IF to <= Len(s) THEN to ELSE Len(s))

\* Transaction.toAggregate: the inner transaction bound to a signer
toAggregate(t, signer) == [t EXCEPT !.signer = signer]

\* now is the deadline Deadline.create() gives at the time of the call
createFromPayload(payload, isEmbedded, now) ==
    LET builder == IF isEmbedded
                   THEN loadFromBinaryEmbedded(hexToUint8(payload))
                   ELSE loadFromBinary(hexToUint8(payload))
        signerPublicKey == uint8ToHex(builder.signerPublicKey)
        networkType == builder.network
        signature == substring(payload, SignatureStart, SignatureEnd)
        transaction ==
            create(IF isEmbedded THEN now ELSE builder.deadline,
                   builder.hashAlgorithm,
                   uint8ToHex(builder.secret),
                   toUnresolvedAddress(uint8ToHex(builder.recipientAddress)),
                   uint8ToHex(builder.proof),
                   networkType,
                   IF isEmbedded THEN 0 ELSE builder.fee,
                   IF isEmbedded \/ MatchesZeros(signature) THEN None ELSE Hex(signature),
                   IF MatchesZeros(signerPublicKey) THEN None
                   ELSE PublicAccount_createFromPublicKey(signerPublicKey, networkType))
    IN  IF ~transaction.ok THEN transaction
        ELSE IF isEmbedded
        THEN Ok(toAggregate(transaction.tx,
                   PublicAccount_createFromPublicKey(signerPublicKey, networkType)))
        ELSE transaction

(***************************************************************************)
(* Alias resolution: the statement and resolveAliases.                     *)
(***************************************************************************)
\* UInt64.toString: the decimal digits of n
RECURSIVE DecimalString(_)
DecimalString(n) ==
    IF n < 10 THEN <<n>> ELSE Append(DecimalString(n \div 10), n % 10)

ResolutionEntries ==
    [unresolved : {NamespaceId(7)}, height : {1, 2}, primaryId : 0..MaxIndex,
     secondaryId : 0..MaxIndex, resolved : {Address(1), Address(2)}]

SameKey(e, f) ==
    /\ e.unresolved = f.unresolved
    /\ e.height = f.height
    /\ e.primaryId = f.primaryId
    /\ e.secondaryId = f.secondaryId

\* a statement holds at most one resolution per key
RECURSIVE StatementsUpTo(_)
StatementsUpTo(n) ==
    IF n = 0 THEN {{}}
    ELSE LET smaller == StatementsUpTo(n - 1)
         IN  smaller \cup
             UNION {{S \cup {e} : e \in {x \in ResolutionEntries :
                                            \A f \in S : ~SameKey(x, f)}} :
                    S \in smaller}

Statements == StatementsUpTo(MaxEntries)

\* Statement.resolveAddress
resolveAddress(statement, unresolvedAddress, height, transactionIndex, aggregateTransactionIndex) ==
    IF unresolvedAddress.kind # "NamespaceId"
    THEN unresolvedAddress
    ELSE LET found == {e \in statement :
                          /\ e.unresolved = unresolvedAddress
                          /\ DecimalString(e.height) = height
                          /\ e.primaryId = transactionIndex
                          /\ e.secondaryId = aggregateTransactionIndex}
         IN  IF found = {} THEN unresolvedAddress
             ELSE (CHOOSE e \in found : TRUE).resolved

\* Transaction.checkTransactionHeightAndIndex
checkTransactionHeightAndIndex(t) ==
    IF ~Defined(t.transactionInfo)
    THEN [ok |-> FALSE, error |-> "Transaction height or index undefined",
          transactionInfo |-> None]
    ELSE [ok |-> TRUE, error |-> "", transactionInfo |-> t.transactionInfo]

\* DtoMapping.assign(this, {recipientAddress: ...})
assign(t, recipientAddress) == [t EXCEPT !.recipientAddress = recipientAddress]

Query(t, info, agg) ==
    [unresolved |-> t.recipientAddress, height |-> DecimalString(info.height),
     index |-> info.index, aggregateTransactionIndex |-> agg]

resolveAliases_NoCheck(t, statement, aggregateTransactionIndex) ==
    IF ~Defined(t.transactionInfo)
    THEN [ok |-> TRUE, error |-> "", tx |-> t, queries |-> <<>>]
    ELSE [ok |-> TRUE, error |-> "",
          tx |-> assign(t, resolveAddress(statement, t.recipientAddress,
                              DecimalString(t.transactionInfo.height),
                              t.transactionInfo.index, aggregateTransactionIndex)),
          queries |-> <<Query(t, t.transactionInfo, aggregateTransactionIndex)>>]

resolveAliases_DropInfo(t, statement, aggregateTransactionIndex) ==
    LET checked == checkTransactionHeightAndIndex(t)
    IN  IF ~checked.ok
        THEN [ok |-> FALSE, error |-> checked.error, tx |-> None, queries |-> <<>>]
        ELSE [ok |-> TRUE, error |-> "",
              tx |-> [assign(t, resolveAddress(statement, t.recipientAddress,
                                 DecimalString(checked.transactionInfo.height),
                                 checked.transactionInfo.index,
                                 aggregateTransactionIndex))
                        EXCEPT !.transactionInfo = None],
              queries |-> <<Query(t, checked.transactionInfo, aggregateTransactionIndex)>>]

resolveAliases_IgnoreIndex(t, statement, aggregateTransactionIndex) ==
    LET checked == checkTransactionHeightAndIndex(t)
    IN  IF ~checked.ok
        THEN [ok |-> FALSE, error |-> checked.error, tx |-> None, queries |-> <<>>]
        ELSE [ok |-> TRUE, error |-> "",
              tx |-> assign(t, resolveAddress(statement, t.recipientAddress,
                                  DecimalString(checked.transactionInfo.height),
                                  checked.transactionInfo.index, 0)),
              queries |-> <<Query(t, checked.transactionInfo, aggregateTransactionIndex)>>]

\* resolveAliases(statement, aggregateTransactionIndex = 0): the result, or
\* the error thrown, and the queries made to the statement
resolveAliases(t, statement, aggregateTransactionIndex) ==
    LET checked == checkTransactionHeightAndIndex(t)
    IN  IF ~checked.ok
        THEN [ok |-> FALSE, error |-> checked.error, tx |-> None, queries |-> <<>>]
        ELSE [ok |-> TRUE, error |-> "",
              tx |-> assign(t, resolveAddress(statement, t.recipientAddress,
                                  DecimalString(checked.transactionInfo.height),
                                  checked.transactionInfo.index,
                                  aggregateTransactionIndex)),
              queries |-> <<Query(t, checked.transactionInfo, aggregateTransactionIndex)>>]

(***************************************************************************)
(* The operations on one SecretProofTransaction object.                    *)
(***************************************************************************)
NoResult == [kind |-> "undefined"]

\* new SecretProofTransaction(...)
New(a) ==
    /\ phase = "none"
    /\ LET r == constructor(a.networkType, a.version, a.deadline, a.maxFee,
                            a.hashAlgorithm, a.secret, a.recipientAddress,
                            a.proof, a.signature, a.signer, a.transactionInfo)
       IN  /\ phase' = IF r.ok THEN "constructed" ELSE "thrown"
           /\ tx' = r.tx
           /\ result' = [ok |-> r.ok, error |-> r.error]
    /\ args' = a
    /\ UNCHANGED metaVars

\* SecretProofTransaction.create(...)
Create(a) ==
    /\ phase = "none"
    /\ a.transactionInfo = None
    /\ LET r == create(a.deadline, a.hashAlgorithm, a.secret, a.recipientAddress,
                       a.proof, a.networkType, a.maxFee, a.signature, a.signer)
       IN  /\ phase' = IF r.ok THEN "constructed" ELSE "thrown"
           /\ tx' = r.tx
           /\ result' = [ok |-> r.ok, error |-> r.error]
    /\ args' = a
    /\ UNCHANGED metaVars

GetSecretByte ==
    /\ phase = "constructed"
    /\ phase' = "secretByte"
    /\ result' = [bytes |-> getSecretByte(tx)]
    /\ UNCHANGED <<args, tx>>
    /\ UNCHANGED metaVars

\* serialize(): the payload of the standalone transaction
Serialize ==
    /\ phase = "constructed"
    /\ phase' = "serialized"
    /\ result' = [payload |-> uint8ToHex(serialize(createBuilder(tx))),
                  isEmbedded |-> FALSE, builder |-> createBuilder(tx)]
    /\ UNCHANGED <<args, tx>>
    /\ UNCHANGED metaVars

\* toEmbeddedTransaction().serialize(): the payload of the embedded form;
\* without a signer, this.signer!.publicKey throws a TypeError
SerializeEmbedded ==
    /\ phase = "constructed"
    /\ IF Defined(tx.signer)
       THEN /\ phase' = "serialized"
            /\ result' = [payload |-> uint8ToHex(serializeEmbedded(toEmbeddedTransaction(tx))),
                          isEmbedded |-> TRUE, builder |-> toEmbeddedTransaction(tx)]
       ELSE /\ phase' = "embedThrown"
            /\ result' = [ok |-> FALSE, error |-> "TypeError"]
    /\ UNCHANGED <<args, tx>>
    /\ UNCHANGED metaVars

\* SecretProofTransaction.createFromPayload(payload, isEmbedded)
CreateFromPayload(now) ==
    /\ phase = "serialized"
    /\ phase' = "decoded"
    /\ result' = [payload |-> result.payload, isEmbedded |-> result.isEmbedded,
                  decoded |-> createFromPayload(result.payload, result.isEmbedded, now)]
    /\ UNCHANGED <<args, tx>>
    /\ UNCHANGED metaVars

\* tx.resolveAliases(statement, aggregateTransactionIndex)
ResolveAliases(statement, agg) ==
    /\ phase = "constructed"
    /\ phase' = "resolved"
    /\ result' = [statement |-> statement, aggregateTransactionIndex |-> agg,
                  first |-> resolveAliases(tx, statement, agg)]
    /\ UNCHANGED <<args, tx>>
    /\ UNCHANGED metaVars

\* tx.resolveAliases(statement): the aggregate index takes its default, 0
ResolveAliasesDefault(statement) ==
    /\ phase = "constructed"
    /\ phase' = "resolved"
    /\ result' = [statement |-> statement, aggregateTransactionIndex |-> 0,
                  first |-> resolveAliases(tx, statement, 0)]
    /\ UNCHANGED <<args, tx>>
    /\ UNCHANGED metaVars

\* resolveAliases on the transaction the first resolveAliases returned
ResolveAgain ==
    /\ phase = "resolved"
    /\ result.first.ok
    /\ phase' = "resolvedAgain"
    /\ result' = [statement |-> result.statement,
                  aggregateTransactionIndex |-> result.aggregateTransactionIndex,
                  first |-> result.first,
                  second |-> resolveAliases(result.first.tx, result.statement,
                                            result.aggregateTransactionIndex)]
    /\ UNCHANGED <<args, tx>>
    /\ UNCHANGED metaVars

(***************************************************************************)
(* Notification filtering: shouldNotifyAccount.                            *)
(***************************************************************************)
\* longest alias array that is enumerated
MaxAliases == 2

\* PublicAccount.address: the address derived from the public key
PublicAccount_address(publicAccount) == Address(publicAccount.publicKey[1])

\* Address.equals / NamespaceId.equals: the same kind of identifier and
\* the same value
equals(a, b) == a.kind = b.kind /\ a.id = b.id

\* Transaction.isSigned
isSigned(t, address) ==
    Defined(t.signer) /\ equals(PublicAccount_address(t.signer), address)

shouldNotifyAccount_NoAlias(t, address, alias) ==
    \/ isSigned(t, address)
    \/ equals(t.recipientAddress, address)

\* alias.find(...) !== undefined: some element of the array satisfies it
shouldNotifyAccount(t, address, alias) ==
    \/ isSigned(t, address)
    \/ equals(t.recipientAddress, address)
    \/ \E i \in 1..Len(alias) : equals(t.recipientAddress, alias[i])

\* the addresses asked about: two recipients and the address of the signer
NotifyAddresses ==
    {Address(1), Address(2),
     PublicAccount_address(PublicAccount_createFromPublicKey(Fill(64, 13), 152))}

AliasNames == {NamespaceId(7), NamespaceId(8)}

RECURSIVE AliasArraysOfLen(_)
AliasArraysOfLen(n) ==
    IF n = 0 THEN {<<>>}
    ELSE {Append(s, name) : s \in AliasArraysOfLen(n - 1), name \in AliasNames}

AliasArrays == UNION {AliasArraysOfLen(n) : n \in 0..MaxAliases}

\* the constructor arguments of the objects that are asked about
NotifyArgs ==
    [networkType : {152}, version : {SECRET_PROOF_VERSION},
     deadline : {1}, maxFee : {0},
     hashAlgorithm : {0}, secret : {Fill(64, 10)},
     recipientAddress : RecipientInputs \cup {NamespaceId(8)}, proof : {Fill(2, 11)},
     signature : {None, Hex(Fill(128, 12))}, signer : SignerInputs,
     transactionInfo : {None}]

\* tx.shouldNotifyAccount(address, alias)
ShouldNotifyAccount(address, alias) ==
    /\ phase = "constructed"
    /\ phase' = "notified"
    /\ result' = [address |-> address, alias |-> alias,
                  value |-> shouldNotifyAccount(tx, address, alias)]
    /\ UNCHANGED <<args, tx>>
    /\ UNCHANGED metaVars

(***************************************************************************)
(* The specifications.                                                     *)
(***************************************************************************)
Init ==
    /\ pc = "idle"
    /\ call = NoCall
    /\ requests = <<>>
    /\ emitted = <<>>
    /\ failure = None
    /\ response = None
    /\ phase = "none"
    /\ args = None
    /\ tx = None
    /\ result = NoResult

Next ==
    \/ \E c \in Calls : createMetadataTransaction(c)
    \/ \E metadata \in Metadatas : RepositoryNext(metadata)
    \/ \E err \in RepositoryErrors : RepositoryError(err)

Spec == Init /\ [][Next]_vars

NextProof ==
    \/ \E a \in CodecArgs : New(a)
    \/ \E a \in CodecArgs : Create(a)
    \/ GetSecretByte
    \/ Serialize
    \/ SerializeEmbedded
    \/ \E now \in ProofDeadlines : CreateFromPayload(now)

SpecProof == Init /\ [][NextProof]_vars

NextResolve ==
    \/ \E a \in ResolveArgs : New(a)
    \/ \E a \in ResolveArgs : Create(a)
    \/ \E statement \in Statements, agg \in 0..MaxIndex : ResolveAliases(statement, agg)
    \/ \E statement \in Statements : ResolveAliasesDefault(statement)
    \/ ResolveAgain

SpecResolve == Init /\ [][NextResolve]_vars


NextNotify ==
    \/ \E a \in NotifyArgs : New(a)
    \/ \E a \in NotifyArgs : Create(a)
    \/ \E address \in NotifyAddresses, alias \in AliasArrays :
          ShouldNotifyAccount(address, alias)

SpecNotify == Init /\ [][NextNotify]_vars
(***************************************************************************)
(* Properties of the Metadata Differential Update Protocol.                *)
(***************************************************************************)
Min(a, b) == IF a <= b THEN a ELSE b

Succeeded == pc = "completed" /\ response.channel = "next"

FetchFailed == pc \in {"completed", "errored"} /\ response.channel = "error"

\* the stored value and the caller's value, as UTF-8 bytes
CurBytes == utf8ToUint8(response.metadata.value)
NewBytes == utf8ToUint8(call.value)

\* a failure that says not-found: a JSON message whose statusCode is 404
NotFoundFailure(err) ==
    /\ err.message.json
    /\ ~err.message.isNull
    /\ err.message.statusCode = Number(404)

\* C1: after a successful fetch of cur, the one emitted transaction has
\* valueSizeDelta = len(utf8(new)) - len(utf8(cur)) and a value that is the
\* xor of cur and new on the overlap followed by the tail of the longer one;
\* cur = "abc", new = "abcd" gives 1 and 0, 0, 0, 'd'.
C1_DiffOfStoredAndNew ==
    Succeeded =>
        /\ Len(emitted) = 1
        /\ failure = None
        /\ LET t == emitted[1]
               cur == CurBytes
               new == NewBytes
           IN  /\ t.valueSizeDelta = Len(new) - Len(cur)
               /\ Len(t.value) = Max(Len(cur), Len(new))
               /\ \A i \in 1..Len(t.value) :
                     t.value[i] =
                        IF i <= Min(Len(cur), Len(new)) THEN BitXor(cur[i], new[i])
                        ELSE IF i <= Len(cur) THEN cur[i] ELSE new[i]
               /\ (response.metadata.value = <<97, 98, 99>>
                     /\ call.value = <<97, 98, 99, 100>>)
                    => (t.valueSizeDelta = 1 /\ t.value = <<0, 0, 0, 100>>)

C1_Witness ==
    /\ Succeeded
    /\ response.metadata.value = <<97, 98, 99>>
    /\ call.value = <<97, 98, 99, 100>>
    /\ emitted[1].type = "NamespaceMetadataTransaction"

\* C2: a fetch that fails with not-found (statusCode 404) does not fail the
\* operation: exactly one transaction is emitted, with valueSizeDelta =
\* len(utf8(new)) and the caller's value unmodified.
C2_FirstWrite ==
    (FetchFailed /\ NotFoundFailure(response.error)) =>
        /\ pc = "completed"
        /\ failure = None
        /\ Len(emitted) = 1
        /\ emitted[1].valueSizeDelta = Len(utf8ToUint8(call.value))
        /\ emitted[1].value = call.value

C2_Witness ==
    /\ FetchFailed
    /\ NotFoundFailure(response.error)
    /\ call.value = <<233>>
    /\ emitted[1].type = "AccountMetadataTransaction"

\* C3: every fetch failure other than not-found reaches the caller
\* unchanged on the error channel: no transaction, no first write, and the
\* error received is the repository's error whatever its message.
C3_UpstreamErrorUnchanged ==
    (FetchFailed /\ ~NotFoundFailure(response.error)) =>
        /\ pc = "errored"
        /\ emitted = <<>>
        /\ failure = response.error

\* the arguments the dispatch must refuse
InvalidCall(c) ==
    \/ c.metadataType \notin {"Account", "Mosaic", "Namespace"}
    \/ c.metadataType = "Mosaic" /\ c.targetId.kind # "MosaicId"
    \/ c.metadataType = "Namespace" /\ c.targetId.kind # "NamespaceId"

\* C4: createMetadataTransaction throws, with no request issued, exactly
\* when the type is outside the enum, or Mosaic without a MosaicId, or
\* Namespace without a NamespaceId; for Account the targetId is not looked at.
C4_SynchronousDispatchFailure ==
    pc # "idle" =>
        IF InvalidCall(call)
        THEN /\ pc = "thrown"
             /\ requests = <<>>
             /\ emitted = <<>>
             /\ failure.name = "Error"
        ELSE /\ pc # "thrown"
             /\ Len(requests) = 1

C4_Witness ==
    /\ pc = "thrown"
    /\ call.metadataType = "Mosaic"
    /\ call.targetId.kind = "NamespaceId"
    /\ requests = <<>>

\* a byte sequence zero-padded on the right to n bytes
PadTo(bytes, n) == [i \in 1..n |-> IF i <= Len(bytes) THEN bytes[i] ELSE 0]

\* C5: applying the emitted diff to cur, both padded to the same length,
\* gives back new, zero-padded to that length when new is the shorter.
C5_XorRoundTrip ==
    Succeeded =>
        LET diff == emitted[1].value
            n == Max(Len(CurBytes), Len(diff))
        IN  /\ n = Max(Len(CurBytes), Len(NewBytes))
            /\ [i \in 1..n |-> BitXor(PadTo(CurBytes, n)[i], PadTo(diff, n)[i])]
                 = PadTo(NewBytes, n)

C5_Witness ==
    /\ Succeeded
    /\ response.metadata.value = <<233, 97>>
    /\ call.value = <<98>>
    /\ emitted[1].value # <<98>>

(***************************************************************************)
(* Properties of SecretProofTransaction.                                   *)
(***************************************************************************)
\* the hex length of the digest of each hash algorithm
DigestHexLength(hashAlgorithm) ==
    CASE hashAlgorithm = 0 -> 64
      [] hashAlgorithm = 1 -> 40
      [] hashAlgorithm = 2 -> 64

\* C6: constructing a secret-proof transaction (create, the constructor, or
\* createFromPayload) with a secret whose length is not the one its hash
\* algorithm requires fails with the validation error and yields no
\* object; SHA3-256 with 32 hex digits fails.
C6_SecretLengthValidated ==
    /\ (phase # "none" /\ Len(args.secret) # DigestHexLength(args.hashAlgorithm))
          => /\ phase = "thrown"
             /\ ~result.ok
             /\ result.error = "HashType and Secret have incompatible length or not hexadecimal string"
             /\ tx = None
    /\ (phase \notin {"none", "thrown"})
          => Len(tx.secret) = DigestHexLength(tx.hashAlgorithm)
    /\ (phase = "decoded")
          => IF result.decoded.ok
             THEN Len(result.decoded.tx.secret)
                     = DigestHexLength(result.decoded.tx.hashAlgorithm)
             ELSE result.decoded.tx = None

C6_Witness ==
    /\ phase = "thrown"
    /\ args.hashAlgorithm = 0
    /\ args.secret = Fill(32, 10)
    /\ tx = None

\* C7: getSecretByte of a secret of fewer than 64 hex digits is exactly 32
\* bytes, the bytes of the secret followed by zero bytes; of a secret of 64
\* hex digits it is the 32 bytes of the secret.
C7_SecretBytePadded ==
    phase = "secretByte" =>
        /\ Len(result.bytes) = 32
        /\ \A i \in 1..32 :
              result.bytes[i] =
                 IF 2 * i <= Len(tx.secret)
                 THEN 16 * tx.secret[2 * i - 1] + tx.secret[2 * i]
                 ELSE 0

C7_Witness ==
    /\ phase = "secretByte"
    /\ Len(tx.secret) = 40
    /\ result.bytes[20] = 170
    /\ result.bytes[21] = 0
    /\ result.bytes[32] = 0

\* C8: resolveAliases on a transaction without transaction-info fails with
\* the precondition error; it returns no transaction and does not query
\* the statement.
C8_ResolveNeedsTransactionInfo ==
    (phase = "resolved" /\ ~Defined(tx.transactionInfo)) =>
        /\ ~result.first.ok
        /\ result.first.error = "Transaction height or index undefined"
        /\ result.first.tx = None
        /\ result.first.queries = <<>>

C8_Witness ==
    /\ phase = "resolved"
    /\ ~Defined(tx.transactionInfo)
    /\ tx.recipientAddress.kind = "NamespaceId"
    /\ result.statement # {}

\* C9: resolving the result of resolveAliases again, with the same
\* statement, gives the same transaction; a recipient that is already an
\* address passes through unchanged.
C9_ResolveIdempotent ==
    /\ (phase \in {"resolved", "resolvedAgain"} /\ Defined(tx.transactionInfo))
          => /\ result.first.ok
             /\ tx.recipientAddress.kind = "Address"
                   => result.first.tx.recipientAddress = tx.recipientAddress
    /\ phase = "resolvedAgain"
          => /\ result.second.ok
             /\ result.second.tx = result.first.tx

C9_Witness ==
    /\ phase = "resolvedAgain"
    /\ tx.recipientAddress.kind = "NamespaceId"
    /\ result.first.tx.recipientAddress.kind = "Address"
    /\ result.second.ok

\* a zero signature / the zero signer key, read back as absent
NormalisedSignature(t) ==
    IF Defined(t.signature) /\ MatchesZeros(t.signature.hex) THEN None ELSE t.signature

NormalisedSigner(t) ==
    IF Defined(t.signer) /\ MatchesZeros(t.signer.publicKey) THEN None ELSE t.signer

SameButSecret(d, t) ==
    /\ d.hashAlgorithm = t.hashAlgorithm
    /\ d.recipientAddress = t.recipientAddress
    /\ d.proof = t.proof
    /\ d.maxFee = t.maxFee
    /\ d.deadline = t.deadline
    /\ d.networkType = t.networkType
    /\ d.signature = NormalisedSignature(t)
    /\ d.signer = NormalisedSigner(t)

StandaloneDecoded == phase = "decoded" /\ ~result.isEmbedded

\* C10: createFromPayload of the payload of a standalone transaction t
\* equals t on every field (hash algorithm, secret with its literal length,
\* recipient, proof, max fee, deadline, network type), a zero signer or
\* signature being read back as absent.
C10_CodecRoundTrip ==
    StandaloneDecoded =>
        /\ result.decoded.ok
        /\ SameButSecret(result.decoded.tx, tx)
        /\ result.decoded.tx.secret = tx.secret

\* what does hold of the round trip: a secret of the full width comes back
\* whole, with every other field
RoundTripOfFullWidthSecret ==
    (StandaloneDecoded /\ Len(tx.secret) = SecretHexWidth) =>
        /\ result.decoded.ok
        /\ SameButSecret(result.decoded.tx, tx)
        /\ result.decoded.tx.secret = tx.secret


(***************************************************************************)
(* Properties of the decoded signer and signature.                         *)
(***************************************************************************)
\* the signer public key and the signature a payload carries, as hex
PayloadSignerKey(payload, isEmbedded) ==
    uint8ToHex(Slice(hexToUint8(payload), IF isEmbedded THEN 8 ELSE 72, KeyBytes))

PayloadSignature(payload) ==
    uint8ToHex(Slice(hexToUint8(payload), 8, SignatureBytes))

Decoded == phase = "decoded" /\ result.decoded.ok

\* C11: for either value of isEmbedded, createFromPayload returns a
\* transaction with no signer when the signer public key of the payload is
\* all zero bytes, and with no signature when the signature of the payload
\* is all zero bytes; a non-zero signer key or signature of a standalone
\* payload is decoded to exactly that value.
C11_ZeroSignerDecodesToAbsent ==
    Decoded =>
        LET key == PayloadSignerKey(result.payload, result.isEmbedded)
            d == result.decoded.tx
        IN  /\ MatchesZeros(key) => d.signer = None
            /\ ~result.isEmbedded =>
                  LET signature == PayloadSignature(result.payload)
                  IN  /\ MatchesZeros(signature) => d.signature = None
                      /\ ~MatchesZeros(signature) => d.signature = Hex(signature)
                      /\ ~MatchesZeros(key) =>
                            d.signer = PublicAccount_createFromPublicKey(key, d.networkType)

\* what does hold: of a standalone payload, a zero signer key and a zero
\* signature are read back as absent and any other value as itself; of an
\* embedded payload the signature is absent and the signer is the public
\* account of the key, whatever the key
DecodedSignerAndSignature ==
    Decoded =>
        LET key == PayloadSignerKey(result.payload, result.isEmbedded)
            d == result.decoded.tx
        IN  IF result.isEmbedded
            THEN /\ d.signature = None
                 /\ d.signer = PublicAccount_createFromPublicKey(key, d.networkType)
            ELSE LET signature == PayloadSignature(result.payload)
                 IN  /\ d.signature = IF MatchesZeros(signature) THEN None ELSE Hex(signature)
                     /\ d.signer = IF MatchesZeros(key) THEN None
                                   ELSE PublicAccount_createFromPublicKey(key, d.networkType)

\* an embedded payload whose signer key is all zeros has been decoded
EmbeddedZeroSignerDecoded ==
    /\ Decoded
    /\ result.isEmbedded
    /\ MatchesZeros(PayloadSignerKey(result.payload, TRUE))

(***************************************************************************)
(* Properties of the encoding.                                             *)
(***************************************************************************)
\* the body of a payload: recipient, secret, proof size, hash algorithm
\* and proof, from the offset at which the form places it
PayloadBody(payload, isEmbedded) ==
    LET bytes == hexToUint8(payload)
        from == IF isEmbedded THEN 48 ELSE 128
    IN  SubSeq(bytes, from + 1, Len(bytes))

StandaloneEncoded == phase = "serialized" /\ ~result.isEmbedded

EmbeddedEncoded == phase = "serialized" /\ result.isEmbedded

\* toEmbeddedTransaction was called, whether it returned or threw
EmbeddedRequested == EmbeddedEncoded \/ phase = "embedThrown"

SameBodyFields(b, c) ==
    /\ b.recipientAddress = c.recipientAddress
    /\ b.secret = c.secret
    /\ b.hashAlgorithm = c.hashAlgorithm
    /\ b.proof = c.proof

StandaloneZeroFilled ==
    StandaloneEncoded =>
        /\ Len(result.builder.signature) = SignatureBytes
        /\ Len(result.builder.signerPublicKey) = KeyBytes
        /\ ~Defined(tx.signature) => result.builder.signature = Zeros(SignatureBytes)
        /\ ~Defined(tx.signer) => result.builder.signerPublicKey = Zeros(KeyBytes)
        /\ Defined(tx.signature) => result.builder.signature = hexToUint8(tx.signature.hex)
        /\ Defined(tx.signer) => result.builder.signerPublicKey = hexToUint8(tx.signer.publicKey)

EmbeddedOmitsAndKeepsBody ==
    EmbeddedEncoded =>
        /\ {"fee", "deadline", "signature"} \cap DOMAIN result.builder = {}
        /\ SameBodyFields(result.builder, createBuilder(tx))
        /\ PayloadBody(result.payload, TRUE)
              = PayloadBody(uint8ToHex(serialize(createBuilder(tx))), FALSE)
        /\ Len(result.payload)
              = Len(uint8ToHex(serialize(createBuilder(tx)))) - 2 * (SignatureBytes + 8 + 8)

\* C12: encoding a secret-proof transaction emits a 64-byte all-zero
\* signature when the signature is absent and a 32-byte all-zero signer
\* key when the signer is absent, in both the standalone form
\* (createBuilder) and the embedded form (toEmbeddedTransaction); the
\* embedded form carries no fee, deadline or signature field, and its body
\* fields (recipient, secret, hash algorithm, proof) are the same values in
\* the same order as in the standalone form.
C12_EncodingZeroFillsAbsent ==
    /\ StandaloneZeroFilled
    /\ EmbeddedOmitsAndKeepsBody
    /\ EmbeddedRequested =>
          /\ phase = "serialized"
          /\ Len(result.builder.signerPublicKey) = KeyBytes
          /\ ~Defined(tx.signer) => result.builder.signerPublicKey = Zeros(KeyBytes)

\* what does hold: the standalone form zero-fills an absent signature and
\* an absent signer; the embedded form of a transaction that has a signer
\* carries its key, omits fee, deadline and signature, and keeps the body;
\* the embedded form of a transaction without a signer is not produced
EncodingOfPresentSigner ==
    /\ StandaloneZeroFilled
    /\ EmbeddedOmitsAndKeepsBody
    /\ EmbeddedEncoded =>
          /\ Defined(tx.signer)
          /\ result.builder.signerPublicKey = hexToUint8(tx.signer.publicKey)
    /\ phase = "embedThrown" =>
          /\ ~Defined(tx.signer)
          /\ result.error = "TypeError"

\* the embedded form of a transaction without a signer was asked for
EmbeddedOfAbsentSigner == EmbeddedRequested /\ ~Defined(tx.signer)

(***************************************************************************)
(* Properties of shouldNotifyAccount.                                      *)
(***************************************************************************)
SignedBy(t, address) ==
    Defined(t.signer) /\ PublicAccount_address(t.signer) = address

Targets(t, address, alias) ==
    \/ t.recipientAddress = address
    \/ t.recipientAddress \in {alias[i] : i \in DOMAIN alias}

\* C13: shouldNotifyAccount(address, aliasSet) returns true if and only if
\* the transaction was signed by the address, or its recipient equals the
\* address, or its recipient equals some alias in aliasSet; it returns
\* false otherwise (in particular for an empty aliasSet and an unsigned
\* transaction with a different recipient) and changes no state.
C13_ShouldNotifyAccount ==
    [][phase' = "notified" =>
          /\ result'.value
                = (SignedBy(tx, result'.address)
                      \/ Targets(tx, result'.address, result'.alias))
          /\ (/\ result'.alias = <<>>
              /\ ~Defined(tx.signer)
              /\ tx.recipientAddress # result'.address) => ~result'.value
          /\ tx' = tx
          /\ args' = args
          /\ metaVars' = metaVars]_vars

C13_Witness ==
    /\ phase = "notified"
    /\ result.value
    /\ ~SignedBy(tx, result.address)
    /\ tx.recipientAddress # result.address
    /\ Len(result.alias) = 2
    /\ tx.recipientAddress = result.alias[2]

(***************************************************************************)
(* Properties of the request and its single continuation.                  *)
(***************************************************************************)
\* the read method of the repository for each kind of metadata
MethodOfKind(metadataType) ==
    CASE metadataType = "Account" -> "getAccountMetadataByKeyAndSender"
      [] metadataType = "Mosaic" -> "getMosaicMetadataByKeyAndSender"
      [] metadataType = "Namespace" -> "getNamespaceMetadataByKeyAndSender"

PassedDispatch == pc \in {"pending", "completed", "errored"}

\* C14: every createMetadataTransaction call that passes the synchronous
\* dispatch checks issues exactly one read request, to the repository
\* method of the declared kind (account, mosaic or namespace), and then
\* resumes exactly once: it ends in exactly one of {one transaction
\* emitted, one error emitted}, never both, and never issues a second
\* request (no retry) on any outcome.
C14_OneRequestOneContinuation ==
    /\ PassedDispatch =>
          /\ Len(requests) = 1
          /\ call.metadataType \in {"Account", "Mosaic", "Namespace"}
          /\ requests[1].method = MethodOfKind(call.metadataType)
    /\ pc = "pending" => emitted = <<>> /\ failure = None /\ response = None
    /\ pc = "completed" => Len(emitted) = 1 /\ failure = None /\ response # None
    /\ pc = "errored" => emitted = <<>> /\ failure # None /\ response # None
    /\ ~PassedDispatch => requests = <<>> /\ emitted = <<>>

C14_Witness ==
    /\ pc = "completed"
    /\ call.metadataType = "Mosaic"
    /\ response.channel = "error"
    /\ Len(requests) = 1
    /\ Len(emitted) = 1
    /\ failure = None

(***************************************************************************)
(* Properties of the transaction resolveAliases returns.                   *)
(***************************************************************************)
\* the entries of the statement for an alias at the coordinates of a
\* transaction
ResolutionsFor(statement, t, agg) ==
    {e \in statement :
        /\ e.unresolved = t.recipientAddress
        /\ e.height = t.transactionInfo.height
        /\ e.primaryId = t.transactionInfo.index
        /\ e.secondaryId = agg}

\* C15: resolveAliases on a confirmed secret-proof transaction returns a
\* new transaction and leaves the input unchanged; the result differs from
\* the input at most in recipientAddress, which is the resolution of the
\* statement for (transaction height, transaction index,
\* aggregateTransactionIndex, defaulting to 0), while hash algorithm,
\* secret, proof, deadline, max fee, signature, signer, network type and
\* transaction-info are unchanged.
C15_ResolveChangesOnlyRecipient ==
    [][(phase' = "resolved" /\ Defined(tx.transactionInfo)) =>
          /\ tx' = tx
          /\ args' = args
          /\ result'.first.ok
          /\ LET r == result'.first.tx
                 found == ResolutionsFor(result'.statement, tx,
                                         result'.aggregateTransactionIndex)
             IN  /\ DOMAIN r = DOMAIN tx
                 /\ \A f \in DOMAIN tx \ {"recipientAddress"} : r[f] = tx[f]
                 /\ found # {} => \E e \in found : r.recipientAddress = e.resolved
                 /\ found = {} => r.recipientAddress = tx.recipientAddress]_vars

C15_Witness ==
    /\ phase = "resolved"
    /\ Defined(tx.transactionInfo)
    /\ Defined(tx.signature)
    /\ Defined(tx.signer)
    /\ tx.hashAlgorithm = 1
    /\ tx.recipientAddress = NamespaceId(7)
    /\ result.aggregateTransactionIndex = 1
    /\ result.first.ok
    /\ result.first.tx.recipientAddress = Address(2)
    /\ result.first.tx.transactionInfo = tx.transactionInfo
====
